---- MODULE Spec2Model ----
(***************************************************************************)
(* The playback session engine of the music recommendation app: the React  *)
(* PlayerProvider (player-context), its HTMLAudioElement, its localStorage *)
(* record and its play telemetry.                                          *)
(*                                                                         *)
(* React state is the ten useState cells.  An intent or an engine callback *)
(* runs against the closure of a render (the values that render saw) and   *)
(* queues state updates; the updates are committed as one render; the      *)
(* effects whose dependencies changed then run (action Flush) before any   *)
(* other handler does.  Times are whole seconds, volumes whole percents.   *)
(***************************************************************************)
EXTENDS Integers, Sequences, FiniteSets, TLC

VARIABLES
  currentSong,   \* Song | null (0 is null)
  queue,         \* Song[]
  history,       \* Song[], most recent first
  isPlaying,
  volume,        \* percent: 70 is 0.7
  progress,
  duration,
  playlistMode,
  repeatMode,    \* "off" | "all" | "one"
  isClient,
  mounted,       \* the mount effect has run
  crashed,       \* an effect threw: React has unmounted the provider
  deps,          \* the effect dependencies of the previous render
  audioSrc,      \* audio.src as the song it belongs to (0: none)
  audioTime,     \* audio.currentTime
  audioPaused,   \* audio.paused
  audioVolume,   \* audio.volume, percent
  playPromises,  \* unsettled play() promises
  storage,       \* localStorage[PLAYER_STATE_KEY]
  engineCalls,   \* calls made on the audio element by the latest step
  telemetry,     \* play events handed to trackInteractionEvent by the latest step
  pending,       \* songs whose play event request is still in flight
  storageWorks,  \* localStorage.getItem and setItem do not throw
  hour,          \* new Date().getHours()
  mark,          \* a state the session has passed through (<<>>: none)
  lastOp,        \* the latest step
  ops,           \* counted intents and engine events handled so far
  budget         \* how many of them the session is given

vars == <<currentSong, queue, history, isPlaying, volume, progress, duration,
          playlistMode, repeatMode, isClient, mounted, crashed, deps,
          audioSrc, audioTime, audioPaused, audioVolume, playPromises,
          storage, engineCalls, telemetry, pending, storageWorks, hour,
          mark, lastOp, ops, budget>>

---------------------------------------------------------------------------
\* Program constants
MAX_HISTORY_LENGTH == 20
defaultVolume == 70
RestartThreshold == 3

\* Bounds of the model
NumSongs == 3            \* songs of the catalog the intents draw from
MaxQueue == 2            \* addToQueue is offered while the queue is shorter
MaxOps == 4              \* intents and engine events of a session
NumFresh == 22           \* songs played one after the other in a long session
MaxDetours == 1          \* other intents and events of a long session
MaxPrefOps == 3          \* intents and engine events of a session over any record
MaxMoves == 5            \* intents and engine events of a session of track moves
NumUnsourced == 5        \* songs without preview_url of a session of skips
MaxSkipOps == 7

\* Handler steps of a session that goes back and forward
MaxBackOps == 4          \* intents of a session of skips
SessionHour == 14        \* the hour of the sessions that do not vary the clock

\* Every track is one second longer than the restart threshold
TrackDuration == RestartThreshold + 1

Songs == 1..NumSongs
RepeatModes == {"off", "all", "one"}
VolumeInputs == {-20, 30, 150}
SeekInputs == {0, 2}
Hours == 0..23
Times == 0..TrackDuration

\* song.features?.preview_url: every third song of the catalog has none
HasPreviewUrl(song) == song % 3 # 0

---------------------------------------------------------------------------
\* Sequences
Min(a, b) == IF a < b THEN a ELSE b

Reverse(s) == [i \in 1..Len(s) |-> s[Len(s) + 1 - i]]

\* Array.prototype.slice(0, n)
SliceTo(s, n) == SubSeq(s, 1, Min(Len(s), n))

\* Faulty variant of PushHistory: the slice is forgotten
PushHistoryNoSlice(song, prev) == <<song>> \o prev

\* [song, ...prev].slice(0, MAX_HISTORY_LENGTH)
PushHistory(song, prev) == SliceTo(<<song>> \o prev, MAX_HISTORY_LENGTH)

---------------------------------------------------------------------------
\* The world a handler or an effect acts on, as one record
World ==
  [currentSong |-> currentSong, queue |-> queue, history |-> history,
   isPlaying |-> isPlaying, volume |-> volume, progress |-> progress,
   duration |-> duration, playlistMode |-> playlistMode,
   repeatMode |-> repeatMode, isClient |-> isClient,
   crashed |-> crashed,
   audioSrc |-> audioSrc, audioTime |-> audioTime,
   audioPaused |-> audioPaused, audioVolume |-> audioVolume,
   playPromises |-> playPromises, storage |-> storage,
   engineCalls |-> {}, telemetry |-> <<>>, pending |-> pending,
   storageWorks |-> storageWorks, hour |-> hour, mark |-> mark]

\* The closure of the first render: the useState defaults
FirstRender ==
  [currentSong |-> 0, queue |-> <<>>, history |-> <<>>, isPlaying |-> FALSE,
   volume |-> defaultVolume, progress |-> 0, duration |-> 0,
   playlistMode |-> FALSE, repeatMode |-> "off", isClient |-> FALSE]

\* The dependency values of the effects, as a render sees them
DepsOf(w) ==
  [currentSong |-> w.currentSong, isPlaying |-> w.isPlaying,
   isClient |-> w.isClient, playlistMode |-> w.playlistMode,
   volume |-> w.volume, repeatMode |-> w.repeatMode]

NoRecord == [kind |-> "none", volume |-> 0, repeatMode |-> "off", playlistMode |-> FALSE]

\* JSON.stringify({volume, repeatMode, playlistMode})
StoredRecord(v, r, p) == [kind |-> "json", volume |-> v, repeatMode |-> r, playlistMode |-> p]

---------------------------------------------------------------------------
\* The audio element

\* audio.play() while song is the current song: the promise is settled later
\* by the engine; rollback says whether its catch handler calls
\* setIsPlaying(false)
AudioPlay(w, song, rollback) ==
  [w EXCEPT !.playPromises = @ \cup {[song |-> song, rollback |-> rollback]},
            !.audioPaused = FALSE,
            !.engineCalls = @ \cup {"play"}]

AudioPause(w) ==
  [w EXCEPT !.audioPaused = TRUE, !.engineCalls = @ \cup {"pause"}]

\* audio.src = url; audio.load(): the element restarts at position 0, paused
AudioLoad(w, song) ==
  [w EXCEPT !.audioSrc = song, !.audioTime = 0, !.audioPaused = TRUE,
            !.engineCalls = @ \cup {"load"}]

\* audio.currentTime = time: the element seeks inside the media
AudioSeek(w, time) ==
  [w EXCEPT !.audioTime = IF time < 0 THEN 0
                          ELSE IF time > TrackDuration THEN TrackDuration ELSE time,
            !.engineCalls = @ \cup {"seek"}]

---------------------------------------------------------------------------
\* Handlers.  c is the closure (the render the handler was created in), w
\* the world with the updates queued so far.  A functional update
\* (setX(prev => ...)) reads w, everything else reads c.

playSong(c, w, song, newQueue) ==
  [w EXCEPT !.history = IF c.currentSong # 0 THEN PushHistory(c.currentSong, @) ELSE @,
            !.currentSong = song,
            !.queue = newQueue,
            !.isPlaying = TRUE,
            !.progress = 0]

pauseSong(c, w) == [w EXCEPT !.isPlaying = FALSE]

resumeSong(c, w) == [w EXCEPT !.isPlaying = TRUE]

\* Faulty variant of nextSong: the head stays in the queue
nextSongKeepsHead(c, w) ==
  IF Len(c.queue) = 0
  THEN w
  ELSE [w EXCEPT !.history = IF c.currentSong # 0 THEN PushHistory(c.currentSong, @) ELSE @,
                 !.currentSong = Head(c.queue),
                 !.isPlaying = TRUE,
                 !.progress = 0]

\* Faulty variant of nextSong: the song left behind is not recorded in the
\* history
nextSongDropsCurrent(c, w) ==
  IF Len(c.queue) = 0
  THEN IF c.repeatMode = "all" /\ Len(c.history) > 0
       THEN LET historySongs == Reverse(c.history)
            IN IF c.currentSong # 0
               THEN playSong(c, w, historySongs[1], Tail(historySongs))
               ELSE w
       ELSE w
  ELSE [w EXCEPT !.currentSong = Head(c.queue),
                 !.queue = Tail(c.queue),
                 !.isPlaying = TRUE,
                 !.progress = 0]

nextSong(c, w) ==
  IF Len(c.queue) = 0
  THEN IF c.repeatMode = "all" /\ Len(c.history) > 0
       THEN LET historySongs == Reverse(c.history)
            IN IF c.currentSong # 0
               THEN playSong(c, w, historySongs[1], Tail(historySongs))
               ELSE w
       ELSE w
  ELSE [w EXCEPT !.history = IF c.currentSong # 0 THEN PushHistory(c.currentSong, @) ELSE @,
                 !.currentSong = Head(c.queue),
                 !.queue = Tail(c.queue),
                 !.isPlaying = TRUE,
                 !.progress = 0]

seekTo(c, w, time) == [AudioSeek(w, time) EXCEPT !.progress = time]

\* Faulty variant of previousSong: the song restarts from the threshold on
previousSongRestartsAtThreshold(c, w) ==
  IF c.progress >= RestartThreshold
  THEN [AudioSeek(w, 0) EXCEPT !.progress = 0]
  ELSE IF Len(c.history) = 0
  THEN w
  ELSE [w EXCEPT !.queue = IF c.currentSong # 0 THEN <<c.currentSong>> \o @ ELSE @,
                 !.currentSong = Head(c.history),
                 !.history = Tail(c.history),
                 !.isPlaying = TRUE,
                 !.progress = 0]

\* Faulty variant of previousSong: the old current song is recorded in the
\* history as well
previousSongRecordsCurrent(c, w) ==
  IF c.progress > RestartThreshold
  THEN seekTo(c, w, 0)
  ELSE IF Len(c.history) = 0
  THEN w
  ELSE [w EXCEPT !.queue = IF c.currentSong # 0 THEN <<c.currentSong>> \o @ ELSE @,
                 !.currentSong = Head(c.history),
                 !.history = IF c.currentSong # 0
                             THEN PushHistory(c.currentSong, Tail(c.history))
                             ELSE Tail(c.history),
                 !.isPlaying = TRUE,
                 !.progress = 0]

\* Faulty variant of previousSong: the old current song goes to the end of
\* the queue
previousSongAppends(c, w) ==
  IF c.progress > RestartThreshold
  THEN seekTo(c, w, 0)
  ELSE IF Len(c.history) = 0
  THEN w
  ELSE [w EXCEPT !.queue = IF c.currentSong # 0 THEN Append(@, c.currentSong) ELSE @,
                 !.currentSong = Head(c.history),
                 !.history = Tail(c.history),
                 !.isPlaying = TRUE,
                 !.progress = 0]

previousSong(c, w) ==
  IF c.progress > RestartThreshold
  THEN seekTo(c, w, 0)
  ELSE IF Len(c.history) = 0
  THEN w
  ELSE [w EXCEPT !.queue = IF c.currentSong # 0 THEN <<c.currentSong>> \o @ ELSE @,
                 !.currentSong = Head(c.history),
                 !.history = Tail(c.history),
                 !.isPlaying = TRUE,
                 !.progress = 0]

setVolume(c, w, newVolume) == [w EXCEPT !.volume = newVolume]

\* Faulty variant of addToQueue: a song already in the queue is not added
addToQueueNoDuplicates(c, w, song) ==
  IF \E i \in 1..Len(w.queue) : w.queue[i] = song THEN w
  ELSE [w EXCEPT !.queue = Append(@, song)]

addToQueue(c, w, song) == [w EXCEPT !.queue = Append(@, song)]

\* Faulty variant of clearQueue: the current song is cleared as well
clearQueueClearsCurrent(c, w) == [w EXCEPT !.queue = <<>>, !.currentSong = 0]

clearQueue(c, w) == [w EXCEPT !.queue = <<>>]

togglePlaylistMode(c, w) == [w EXCEPT !.playlistMode = ~@]

setRepeatMode(c, w, mode) == [w EXCEPT !.repeatMode = mode]

handleTimeUpdate(c, w) == [w EXCEPT !.progress = w.audioTime]

handleLoadedMetadata(c, w) == [w EXCEPT !.duration = TrackDuration]

\* Faulty variant of handleSongEnd: setProgress(0) is forgotten
handleSongEndKeepsProgress(c, w) ==
  IF c.repeatMode = "one"
  THEN AudioPlay(AudioSeek(w, 0), c.currentSong, FALSE)
  ELSE IF Len(c.queue) > 0 \/ c.repeatMode = "all"
  THEN nextSong(c, w)
  ELSE [w EXCEPT !.isPlaying = FALSE]

handleSongEnd(c, w) ==
  IF c.repeatMode = "one"
  THEN AudioPlay(AudioSeek(w, 0), c.currentSong, FALSE)
  ELSE IF Len(c.queue) > 0 \/ c.repeatMode = "all"
  THEN nextSong(c, w)
  ELSE [w EXCEPT !.isPlaying = FALSE, !.progress = 0]

\* play().catch(err => { console.error(...); setIsPlaying(false) })
playRejected(c, w, promise) ==
  IF promise.rollback THEN [w EXCEPT !.isPlaying = FALSE] ELSE w

---------------------------------------------------------------------------
\* Effects.  c is the render whose effects run, w the world so far.

\* useEffect(..., []): the mount effect.  It creates the audio element,
\* registers the listeners of the first render and reads the saved record.
MountEffect(c, w) ==
  LET w1 == [w EXCEPT !.isClient = TRUE, !.audioSrc = 0, !.audioTime = 0,
                      !.audioPaused = TRUE, !.audioVolume = 100]
      st == w.storage
  IN \* getItem throws, or nothing is stored, or JSON.parse throws
     IF ~w.storageWorks \/ st.kind # "json" THEN w1
     ELSE IF st.volume \in 0..100
          THEN [w1 EXCEPT !.volume = st.volume, !.audioVolume = st.volume,
                          !.repeatMode = st.repeatMode,
                          !.playlistMode = st.playlistMode]
          \* audio.volume = state.volume throws; the catch ends the load
          ELSE [w1 EXCEPT !.volume = st.volume]

\* Faulty variant of SaveEffect: only the volume is written, the repeat mode
\* and the playlist mode of the record stay as they were
SaveEffectVolumeOnly(c, w) ==
  IF ~c.isClient THEN w
  ELSE IF ~w.storageWorks THEN w
  ELSE [w EXCEPT !.storage = StoredRecord(c.volume, w.storage.repeatMode,
                                          w.storage.playlistMode)]

\* Faulty variant of SaveEffect: setItem is called outside the try/catch
SaveEffectUncaught(c, w) ==
  IF ~c.isClient THEN w
  ELSE IF ~w.storageWorks THEN [w EXCEPT !.crashed = TRUE]
  ELSE [w EXCEPT !.storage = StoredRecord(c.volume, c.repeatMode, c.playlistMode)]

\* useEffect(..., [volume, repeatMode, playlistMode, isClient])
SaveEffect(c, w) ==
  IF ~c.isClient THEN w
  \* setItem throws; the catch logs the error
  ELSE IF ~w.storageWorks THEN w
  ELSE [w EXCEPT !.storage = StoredRecord(c.volume, c.repeatMode, c.playlistMode)]

\* Faulty variant of getTimeOfDay: the upper limits belong to the earlier
\* time of day
getTimeOfDayInclusive(h) ==
  IF h >= 5 /\ h <= 12 THEN "morning"
  ELSE IF h >= 12 /\ h <= 17 THEN "afternoon"
  ELSE IF h >= 17 /\ h <= 21 THEN "evening"
  ELSE "night"

\* The time of day of an hour of the wall clock
getTimeOfDay(h) ==
  IF h >= 5 /\ h < 12 THEN "morning"
  ELSE IF h >= 12 /\ h < 17 THEN "afternoon"
  ELSE IF h >= 17 /\ h < 21 THEN "evening"
  ELSE "night"

\* The event the audio-source effect hands to trackInteractionEvent
PlayEvent(c, h) ==
  [event_type |-> "play", song_id |-> c.currentSong, hasContext |-> TRUE,
   time_of_day |-> getTimeOfDay(h), device |-> "web",
   player_mode |-> IF c.playlistMode THEN "playlist" ELSE "standard"]

\* useEffect(..., [currentSong, isPlaying, isClient, playlistMode])
SourceEffect(c, w) ==
  IF ~c.isClient \/ c.currentSong = 0 THEN w
  ELSE IF ~HasPreviewUrl(c.currentSong) THEN nextSong(c, w)
  ELSE LET loaded == AudioLoad(w, c.currentSong)
       IN IF c.isPlaying
          THEN [AudioPlay(loaded, c.currentSong, TRUE)
                  EXCEPT !.telemetry = Append(@, PlayEvent(c, w.hour)),
                         !.pending = @ \cup {c.currentSong}]
          ELSE loaded

\* useEffect(..., [volume, isClient]): audio.volume throws outside [0, 1],
\* and an error thrown by an effect unmounts the provider
VolumeEffect(c, w) ==
  IF ~c.isClient THEN w
  ELSE IF c.volume \in 0..100 THEN [w EXCEPT !.audioVolume = c.volume]
  ELSE [w EXCEPT !.crashed = TRUE]

\* useEffect(..., [isPlaying, currentSong, isClient])
PlayPauseEffect(c, w) ==
  IF ~c.isClient \/ c.currentSong = 0 THEN w
  ELSE IF c.isPlaying THEN AudioPlay(w, c.currentSong, TRUE)
  ELSE AudioPause(w)

\* The effects of one render, in the order they are declared; d holds the
\* dependency values of the render before
RunEffects(d, c) ==
  LET n == DepsOf(c)
      w1 == IF <<n.volume, n.repeatMode, n.playlistMode, n.isClient>>
               # <<d.volume, d.repeatMode, d.playlistMode, d.isClient>>
            THEN SaveEffect(c, c) ELSE c
      w2 == IF <<n.currentSong, n.isPlaying, n.isClient, n.playlistMode>>
               # <<d.currentSong, d.isPlaying, d.isClient, d.playlistMode>>
            THEN SourceEffect(c, w1) ELSE w1
      w3 == IF <<n.volume, n.isClient>> # <<d.volume, d.isClient>>
            THEN VolumeEffect(c, w2) ELSE w2
      w4 == IF <<n.isPlaying, n.currentSong, n.isClient>>
               # <<d.isPlaying, d.currentSong, d.isClient>>
            THEN PlayPauseEffect(c, w3) ELSE w3
  IN w4

---------------------------------------------------------------------------
\* Steps

\* The world w becomes the state; op names the step
Commit(w, op) ==
  /\ currentSong' = w.currentSong
  /\ queue' = w.queue
  /\ history' = w.history
  /\ isPlaying' = w.isPlaying
  /\ volume' = w.volume
  /\ progress' = w.progress
  /\ duration' = w.duration
  /\ playlistMode' = w.playlistMode
  /\ repeatMode' = w.repeatMode
  /\ isClient' = w.isClient
  /\ crashed' = w.crashed
  /\ audioSrc' = w.audioSrc
  /\ audioTime' = w.audioTime
  /\ audioPaused' = w.audioPaused
  /\ audioVolume' = w.audioVolume
  /\ playPromises' = w.playPromises
  /\ storage' = w.storage
  /\ engineCalls' = w.engineCalls
  /\ telemetry' = w.telemetry
  /\ pending' = w.pending
  /\ mark' = w.mark
  /\ lastOp' = op
  /\ UNCHANGED <<storageWorks, hour>>

\* No state is marked: every intent starts anew
NoMark == <<>>

\* No render is waiting for its effects: handlers see the committed state
Settled == mounted /\ ~crashed /\ DepsOf(World) = deps

Ready == Settled /\ ops < budget

\* An intent or an engine callback: one handler, run to completion
Handle(w, op) ==
  /\ Commit([w EXCEPT !.mark = NoMark], op)
  /\ ops' = ops + 1
  /\ UNCHANGED <<mounted, deps, budget>>

Mount ==
  /\ ~mounted
  /\ Commit(MountEffect(World, World), "mount")
  /\ mounted' = TRUE
  /\ deps' = DepsOf(World)
  /\ UNCHANGED <<ops, budget>>

Flush ==
  /\ mounted /\ ~crashed
  /\ DepsOf(World) # deps
  /\ Commit(RunEffects(deps, World), "flush")
  /\ deps' = DepsOf(World)
  /\ UNCHANGED <<mounted, ops, budget>>

BoundedSeq(S, n) == UNION {[1..k -> S] : k \in 0..n}

PlaySongOp(song, newQueue) ==
  /\ Ready
  /\ Handle(playSong(World, World, song, newQueue), "playSong")

PauseSongOp == Ready /\ Handle(pauseSong(World, World), "pauseSong")

ResumeSongOp == Ready /\ Handle(resumeSong(World, World), "resumeSong")

NextSongOp == Ready /\ Handle(nextSong(World, World), "nextSong")

PreviousSongOp == Ready /\ Handle(previousSong(World, World), "previousSong")

SetVolumeOp(newVolume) ==
  Ready /\ Handle(setVolume(World, World, newVolume), "setVolume")

SeekToOp(time) == Ready /\ Handle(seekTo(World, World, time), "seekTo")

AddToQueueOp(song) ==
  /\ Ready
  /\ Len(queue) < MaxQueue
  /\ Handle(addToQueue(World, World, song), "addToQueue")

ClearQueueOp == Ready /\ Handle(clearQueue(World, World), "clearQueue")

TogglePlaylistModeOp ==
  Ready /\ Handle(togglePlaylistMode(World, World), "togglePlaylistMode")

SetRepeatModeOp(mode) ==
  Ready /\ Handle(setRepeatMode(World, World, mode), "setRepeatMode")

\* The listeners are those of the first render (addEventListener in the
\* mount effect): their closure is FirstRender for the whole session.

\* 'timeupdate': the element plays on to position t
OnTimeUpdate(t) ==
  /\ Ready
  /\ audioSrc # 0 /\ ~audioPaused /\ t > audioTime
  /\ Handle(handleTimeUpdate(FirstRender, [World EXCEPT !.audioTime = t]), "timeupdate")

\* 'loadedmetadata'
OnLoadedMetadata ==
  /\ Ready
  /\ audioSrc # 0 /\ duration # TrackDuration
  /\ Handle(handleLoadedMetadata(FirstRender, World), "loadedmetadata")

\* 'ended': the element has played its media to the end
OnEnded ==
  /\ Ready
  /\ audioSrc # 0 /\ ~audioPaused /\ audioTime < TrackDuration
  /\ Handle(handleSongEnd(FirstRender, [World EXCEPT !.audioTime = TrackDuration]), "ended")

\* The engine fulfils a play() promise: no handler is attached
PlayFulfilled(promise) ==
  /\ Ready
  /\ promise \in playPromises
  /\ Handle([World EXCEPT !.playPromises = @ \ {promise}], "fulfilled")

\* The engine rejects a play() promise: its catch handler runs
PlayRejected(promise) ==
  /\ Ready
  /\ promise \in playPromises
  /\ Handle(playRejected(World, [World EXCEPT !.playPromises = @ \ {promise}], promise),
            "rejected")

\* The page is loaded again: a fresh session over the same localStorage
Reload ==
  /\ mounted
  /\ ops < budget
  /\ Commit(FirstRender @@ [crashed |-> FALSE, audioSrc |-> 0, audioTime |-> 0,
                             audioPaused |-> TRUE, audioVolume |-> 100,
                             playPromises |-> {}, storage |-> storage,
                             engineCalls |-> {}, telemetry |-> <<>>,
                             pending |-> {}, mark |-> NoMark], "reload")
  /\ mounted' = FALSE
  /\ deps' = DepsOf(FirstRender)
  /\ ops' = ops + 1
  /\ UNCHANGED budget

Fresh ==
  /\ currentSong = 0 /\ queue = <<>> /\ history = <<>> /\ isPlaying = FALSE
  /\ volume = defaultVolume /\ progress = 0 /\ duration = 0
  /\ playlistMode = FALSE /\ repeatMode = "off" /\ isClient = FALSE
  /\ mounted = FALSE /\ crashed = FALSE
  /\ deps = DepsOf(FirstRender)
  /\ audioSrc = 0 /\ audioTime = 0 /\ audioPaused = TRUE /\ audioVolume = 100
  /\ playPromises = {}
  /\ engineCalls = {} /\ telemetry = <<>> /\ pending = {} /\ mark = NoMark
  /\ lastOp = "init" /\ ops = 0

\* A session over an empty, working localStorage, started in the afternoon
Init ==
  /\ Fresh
  /\ storage = NoRecord /\ storageWorks = TRUE /\ hour = SessionHour
  /\ budget = MaxOps

Next ==
  \/ Mount
  \/ Flush
  \/ \E song \in Songs, newQueue \in BoundedSeq(Songs, 1) : PlaySongOp(song, newQueue)
  \/ PauseSongOp
  \/ ResumeSongOp
  \/ NextSongOp
  \/ PreviousSongOp
  \/ \E v \in VolumeInputs : SetVolumeOp(v)
  \/ \E t \in SeekInputs : SeekToOp(t)
  \/ \E song \in Songs : AddToQueueOp(song)
  \/ ClearQueueOp
  \/ TogglePlaylistModeOp
  \/ \E mode \in RepeatModes : SetRepeatModeOp(mode)
  \/ \E t \in Times : OnTimeUpdate(t)
  \/ OnLoadedMetadata
  \/ OnEnded
  \/ \E promise \in playPromises : PlayFulfilled(promise)
  \/ \E promise \in playPromises : PlayRejected(promise)
  \/ Reload

Spec == Init /\ [][Next]_vars

---------------------------------------------------------------------------
\* A long session: songs of the catalog are started one after the other, by
\* playSong once the queue is used up or by nextSong from the queue, as
\* often as the catalog allows; every other intent or engine event is
\* counted against the budget.

Max(S) == CHOOSE x \in S : \A y \in S : y <= x

\* The first song of the catalog that the session has not touched yet
FreshSong ==
  1 + Max({0, currentSong} \cup {queue[i] : i \in 1..Len(queue)}
                            \cup {history[i] : i \in 1..Len(history)})

\* A handler of the long session that is not counted
Advance(w, op) ==
  /\ Settled
  /\ Commit(w, op)
  /\ UNCHANGED <<mounted, deps, ops, budget>>

PlayFresh ==
  /\ FreshSong <= NumFresh
  /\ queue = <<>>
  /\ Advance(playSong(World, World, FreshSong, <<>>), "playSong")

PlayFreshWithQueue ==
  /\ FreshSong < NumFresh
  /\ queue = <<>>
  /\ Advance(playSong(World, World, FreshSong, <<FreshSong + 1>>), "playSong")

NextFromQueue ==
  /\ queue # <<>>
  /\ Advance(nextSong(World, World), "nextSong")

InitLong ==
  /\ Fresh
  /\ storage = NoRecord /\ storageWorks = TRUE /\ hour = SessionHour
  /\ budget = MaxDetours

NextLong ==
  \/ Mount
  \/ Flush
  \/ PlayFresh
  \/ PlayFreshWithQueue
  \/ NextFromQueue
  \/ NextSongOp
  \/ PreviousSongOp
  \/ PauseSongOp
  \/ ResumeSongOp
  \/ FreshSong <= NumFresh /\ AddToQueueOp(FreshSong)
  \/ ClearQueueOp
  \/ \E mode \in RepeatModes : SetRepeatModeOp(mode)
  \/ OnEnded
  \/ \E promise \in playPromises : PlayFulfilled(promise)
  \/ \E promise \in playPromises : PlayRejected(promise)

SpecLong == InitLong /\ [][NextLong]_vars

---------------------------------------------------------------------------
\* A session driven from the song cards of the catalog pages

\* The event a song card or a song table row hands to trackInteractionEvent
CardPlayEvent(song) ==
  [event_type |-> "play", song_id |-> song, hasContext |-> FALSE,
   time_of_day |-> "none", device |-> "none", player_mode |-> "none"]

\* SongCard.handlePlayClick (SongTable.handlePlayClick is the same)
handlePlayClick(c, w, song) ==
  IF c.currentSong = song
  THEN IF c.isPlaying THEN pauseSong(c, w) ELSE resumeSong(c, w)
  ELSE [playSong(c, w, song, <<>>)
          EXCEPT !.telemetry = Append(@, CardPlayEvent(song)),
                 !.pending = @ \cup {song}]

SongCardPlayClick(song) ==
  Ready /\ Handle(handlePlayClick(World, World, song), "playClick")

NextCards ==
  \/ Mount
  \/ Flush
  \/ \E song \in Songs : SongCardPlayClick(song)
  \/ \E song \in Songs, newQueue \in BoundedSeq(Songs, 1) : PlaySongOp(song, newQueue)
  \/ NextSongOp
  \/ \E song \in Songs : AddToQueueOp(song)
  \/ TogglePlaylistModeOp
  \/ \E mode \in RepeatModes : SetRepeatModeOp(mode)
  \/ OnEnded

SpecCards == Init /\ [][NextCards]_vars

---------------------------------------------------------------------------
\* Sessions over a localStorage that may fail and that may hold any record,
\* with the network requests of the play events settling

\* A stored string that JSON.parse rejects
UnparsableRecord ==
  [kind |-> "unparsable", volume |-> 0, repeatMode |-> "off", playlistMode |-> FALSE]

\* What localStorage may hold when the first session starts
StartRecords ==
  {NoRecord, UnparsableRecord}
    \cup {StoredRecord(30, "all", TRUE), StoredRecord(30, "shuffle", TRUE),
          StoredRecord(150, "all", TRUE)}

\* A network callback; it is not counted as an intent
Settle(w, op) ==
  /\ Settled
  /\ Commit(w, op)
  /\ UNCHANGED <<mounted, deps, ops, budget>>

\* The request of a play event succeeds: the promise is fulfilled
TelemetryDelivered(song) ==
  /\ song \in pending
  /\ Settle([World EXCEPT !.pending = @ \ {song}], "telemetryDelivered")

\* The request of a play event fails: .catch(err => console.error(...))
TelemetryFailed(song) ==
  /\ song \in pending
  /\ Settle([World EXCEPT !.pending = @ \ {song}], "telemetryFailed")

InitPrefs ==
  /\ Fresh
  /\ storage \in StartRecords /\ storageWorks \in BOOLEAN /\ hour = SessionHour
  /\ budget = MaxPrefOps

NextPrefs ==
  \/ Mount
  \/ Flush
  \/ \E v \in VolumeInputs : SetVolumeOp(v)
  \/ \E mode \in RepeatModes : SetRepeatModeOp(mode)
  \/ TogglePlaylistModeOp
  \/ \E song \in Songs : PlaySongOp(song, <<>>)
  \/ \E song \in pending : TelemetryDelivered(song)
  \/ \E song \in pending : TelemetryFailed(song)
  \/ Reload

\* An effect that is due runs
SpecPrefs == InitPrefs /\ [][NextPrefs]_vars /\ WF_vars(Mount) /\ WF_vars(Flush)

---------------------------------------------------------------------------
\* A session in which seekTo is called with any time

\* seekTo takes any number: also times before the start and after the end
AnySeekInputs == SeekInputs \cup {-1, TrackDuration + 2}

NextSeek ==
  \/ Mount
  \/ Flush
  \/ \E song \in Songs : PlaySongOp(song, <<>>)
  \/ PauseSongOp
  \/ ResumeSongOp
  \/ PreviousSongOp
  \/ \E t \in AnySeekInputs : SeekToOp(t)
  \/ \E t \in Times : OnTimeUpdate(t)
  \/ OnLoadedMetadata

SpecSeek == Init /\ [][NextSeek]_vars

---------------------------------------------------------------------------
\* Sessions at every hour of the day

InitClock ==
  /\ Fresh
  /\ storage = NoRecord /\ storageWorks = TRUE /\ hour \in Hours
  /\ budget = MaxOps

NextClock ==
  \/ Mount
  \/ Flush
  \/ \E song \in Songs : PlaySongOp(song, <<>>)
  \/ PauseSongOp
  \/ ResumeSongOp
  \/ TogglePlaylistModeOp

SpecClock == InitClock /\ [][NextClock]_vars

---------------------------------------------------------------------------
\* A session of track moves: long enough for the repeat-all reconstruction
\* over a history of two tracks

InitMoves ==
  /\ Fresh
  /\ storage = NoRecord /\ storageWorks = TRUE /\ hour = SessionHour
  /\ budget = MaxMoves

NextMoves ==
  \/ Mount
  \/ Flush
  \/ \E song \in Songs, newQueue \in BoundedSeq(Songs, 1) : PlaySongOp(song, newQueue)
  \/ NextSongOp
  \/ PreviousSongOp
  \/ \E mode \in RepeatModes : SetRepeatModeOp(mode)
  \/ OnEnded

SpecMoves == InitMoves /\ [][NextMoves]_vars

---------------------------------------------------------------------------
\* A session over songs without preview_url: they are played one after the
\* other, the repeat mode is set to all and nextSong is called; the effects
\* that are due run

\* The first song without preview_url that the session has not touched yet
UnsourcedSong ==
  3 * (1 + Max({0, currentSong} \cup {queue[i] : i \in 1..Len(queue)}
                                \cup {history[i] : i \in 1..Len(history)}) \div 3)

PlayUnsourcedOp ==
  /\ Ready
  /\ UnsourcedSong <= 3 * NumUnsourced
  /\ Handle(playSong(World, World, UnsourcedSong, <<>>), "playSong")

\* What the run of effects goes on from: the state, the dependencies of
\* the last render and the audio element
RunState ==
  <<currentSong, queue, history, isPlaying, volume, progress, duration,
    playlistMode, repeatMode, deps, audioSrc, audioTime, audioPaused,
    audioVolume, playPromises, pending, storage>>

\* The effects that are due run, and the state they start from is marked: a
\* reconstruction of the queue from a full history
FlushMarked ==
  /\ mounted /\ ~crashed
  /\ DepsOf(World) # deps
  /\ mark = NoMark
  /\ queue = <<>> /\ Len(history) = MAX_HISTORY_LENGTH
  /\ Commit([RunEffects(deps, World) EXCEPT !.mark = <<"run", RunState>>], "flush")
  /\ deps' = DepsOf(World)
  /\ UNCHANGED <<mounted, ops, budget>>

InitSkips ==
  /\ Fresh
  /\ storage = NoRecord /\ storageWorks = TRUE /\ hour = SessionHour
  /\ budget = MaxSkipOps

NextSkips ==
  \/ Mount
  \/ Flush
  \/ FlushMarked
  \/ PlayUnsourcedOp
  \/ repeatMode = "off" /\ SetRepeatModeOp("all")
  \/ NextSongOp

SpecSkips == InitSkips /\ [][NextSkips]_vars

---------------------------------------------------------------------------
\* Going back and forward again: previousSong() on its history branch, then
\* nextSong()

\* An intent whose handler runs from a marked state, or right after one
HandleMarked(w, op, m) ==
  /\ Commit([w EXCEPT !.mark = m], op)
  /\ ops' = ops + 1
  /\ UNCHANGED <<mounted, deps, budget>>

\* previousSong() with something to go back to; the lists before it are
\* marked
BackOp ==
  /\ Ready
  /\ progress <= RestartThreshold /\ history # <<>>
  /\ HandleMarked(previousSong(World, World), "previousSong",
                  <<"back", <<currentSong, queue, history>>>>)

\* nextSong() as the first intent after BackOp
ForthOp ==
  /\ Ready
  /\ mark # NoMark /\ mark[1] = "back"
  /\ HandleMarked(nextSong(World, World), "nextSong", <<"forth", mark[2]>>)

InitBack ==
  /\ Fresh
  /\ storage = NoRecord /\ storageWorks = TRUE /\ hour = SessionHour
  /\ budget = MaxBackOps

NextBack ==
  \/ Mount
  \/ Flush
  \/ \E song \in Songs, newQueue \in BoundedSeq(Songs, 1) : PlaySongOp(song, newQueue)
  \/ \E song \in Songs : AddToQueueOp(song)
  \/ \E mode \in RepeatModes : SetRepeatModeOp(mode)
  \/ NextSongOp
  \/ BackOp
  \/ ForthOp

SpecBack == InitBack /\ [][NextBack]_vars

---------------------------------------------------------------------------
\* Properties

Lists == <<currentSong, queue, history>>

StoreState == <<currentSong, queue, history, isPlaying, volume, progress,
                duration, playlistMode, repeatMode>>

\* h cut to its MAX_HISTORY_LENGTH most recent entries
MostRecent(h) ==
  IF Len(h) > MAX_HISTORY_LENGTH THEN SubSeq(h, 1, MAX_HISTORY_LENGTH) ELSE h

\* C1: the history never holds more than 20 songs, and a step that pushes
\* the old current song onto it keeps the most recent entries in their
\* order: once 20 are held, exactly the oldest (the last) is dropped.
C1_HistoryBounded ==
  [][/\ Len(history') <= MAX_HISTORY_LENGTH
     /\ (lastOp' \in {"playSong", "nextSong", "flush"} /\ history' # history)
          => history' = MostRecent(<<currentSong>> \o history)]_vars

\* C1 witness: songs 1, 2, ..., 22 were started in turn; song 1, the oldest,
\* has been dropped and 21, ..., 2 are kept in order
C1_OldestDropped ==
  /\ lastOp \in {"playSong", "nextSong"}
  /\ currentSong = MAX_HISTORY_LENGTH + 2
  /\ history = [i \in 1..MAX_HISTORY_LENGTH |-> MAX_HISTORY_LENGTH + 2 - i]

\* C2: next() or an ended event with an empty queue, repeatMode all and a
\* non-empty history plays the oldest history entry, queues the others
\* oldest first and leaves the history empty.
C2_RepeatAllReconstructs ==
  [][(lastOp' \in {"nextSong", "ended"} /\ queue = <<>> /\ repeatMode = "all"
        /\ history # <<>>)
       => /\ currentSong' = history[Len(history)]
          /\ queue' = Tail(Reverse(history))
          /\ history' = <<>>]_vars

\* C3: next() with a non-empty queue makes the queue head the current song,
\* removes it from the queue, pushes the old current song (if any) onto the
\* front of the history, and sets progress to 0 and isPlaying to true.
C3_NextTakesQueueHead ==
  [][(lastOp' = "nextSong" /\ queue # <<>>)
       => /\ currentSong' = Head(queue)
          /\ queue' = Tail(queue)
          /\ history' = IF currentSong # 0
                        THEN MostRecent(<<currentSong>> \o history)
                        ELSE history
          /\ progress' = 0
          /\ isPlaying' = TRUE]_vars

\* C3 witness: queue = [2, 3], currentSong = 1, history = [] before next()
C3_NextExample ==
  /\ lastOp = "nextSong"
  /\ currentSong = 2 /\ queue = <<3>> /\ history = <<1>>
  /\ isPlaying /\ progress = 0

\* C4: previous() with progress <= 3 and a non-empty history makes the
\* history head the current song, removes it from the history, puts the old
\* current song in front of the unchanged queue, and sets progress to 0 and
\* isPlaying to true.
C4_PreviousTakesHistoryHead ==
  [][(lastOp' = "previousSong" /\ progress <= RestartThreshold /\ history # <<>>)
       => /\ currentSong # 0
          /\ currentSong' = Head(history)
          /\ history' = Tail(history)
          /\ queue' = <<currentSong>> \o queue
          /\ progress' = 0
          /\ isPlaying' = TRUE]_vars

\* C4 witness: previous() has gone back from song 1 to song 2, with song 1
\* now ahead of the old queue and the older entry still in the history
C4_PreviousExample ==
  /\ lastOp = "previousSong"
  /\ "seek" \notin engineCalls
  /\ deps.currentSong = 1 /\ currentSong = 2
  /\ Len(queue) >= 1 /\ queue[1] = 1
  /\ history = <<1>>
  /\ isPlaying /\ progress = 0

\* C5: with repeatMode one, an ended event leaves currentSong, queue and
\* history unchanged, sets progress to 0, keeps isPlaying true and plays
\* the same song again from position 0.
C5_RepeatOneRestarts ==
  [][(lastOp' = "ended" /\ repeatMode = "one")
       => /\ UNCHANGED Lists
          /\ progress' = 0
          /\ isPlaying => isPlaying'
          /\ audioTime' = 0
          /\ "play" \in engineCalls']_vars

\* C6: with repeatMode off and an empty queue, an ended event sets isPlaying
\* to false and progress to 0 and leaves currentSong, queue and history
\* unchanged; the effects that run after it keep all that.
C6_EndedStopsPlayback ==
  [][/\ (lastOp' = "ended" /\ repeatMode = "off" /\ queue = <<>>)
          => /\ isPlaying' = FALSE
             /\ progress' = 0
             /\ UNCHANGED Lists
     /\ (lastOp = "ended" /\ lastOp' = "flush" /\ repeatMode = "off" /\ queue = <<>>)
          => /\ isPlaying' = FALSE
             /\ progress' = 0
             /\ UNCHANGED Lists]_vars

\* C6 witness: a song that was playing and had made progress has ended
C6_EndedExample ==
  /\ lastOp = "ended"
  /\ repeatMode = "off" /\ queue = <<>>
  /\ currentSong # 0 /\ audioSrc = currentSong
  /\ deps.isPlaying /\ ~isPlaying
  /\ progress = 0

\* C7: the volume is within [0, 1] in every reachable state.
C7_VolumeInRange == volume \in 0..100

\* C8: an engine event of a song that is no longer the current song (a
\* progress tick or an ended event of another source, the rejection of a
\* play attempt made for another song) changes nothing of the session state.
C8_StaleEventDiscarded ==
  [][(\/ lastOp' \in {"timeupdate", "ended"} /\ audioSrc # currentSong
      \/ /\ lastOp' = "rejected"
         /\ \E promise \in playPromises \ playPromises' : promise.song # currentSong)
       => UNCHANGED StoreState]_vars

\* C9: a rejected play attempt results in isPlaying = false with
\* currentSong, queue and history unchanged, in the catch handler and in the
\* effects it triggers.
C9_RejectedPlayRollsBack ==
  [][(lastOp' = "rejected" \/ (lastOp = "rejected" /\ lastOp' = "flush"))
       => /\ isPlaying' = FALSE
          /\ UNCHANGED Lists]_vars

\* C10: when the song that has become current has no audio source, no load
\* is requested and the store ends in the state an ended event handled in
\* that state gives (with repeatMode off and an empty queue: isPlaying
\* false and progress 0).
C10_MissingSourceActsAsEnded ==
  [][(/\ lastOp' = "flush"
      /\ currentSong # 0 /\ ~HasPreviewUrl(currentSong)
      /\ deps.currentSong # currentSong)
       => LET ended == handleSongEnd(World, World)
          IN /\ "load" \notin engineCalls'
             /\ currentSong' = ended.currentSong
             /\ queue' = ended.queue
             /\ history' = ended.history
             /\ isPlaying' = ended.isPlaying
             /\ progress' = ended.progress]_vars

---------------------------------------------------------------------------
\* Play telemetry

TimeOfDayBuckets == {"morning", "afternoon", "evening", "night"}

\* The handlers that start a track
StartOps == {"playSong", "playClick", "nextSong", "ended", "flush"}

\* The render whose effects are due shows a new, playable track playing
NewTrackStarts ==
  /\ mounted /\ ~crashed /\ lastOp \in StartOps
  /\ currentSong # 0 /\ currentSong # deps.currentSong
  /\ isPlaying /\ HasPreviewUrl(currentSong)

\* The play events of a transition: those of its handler, then those of its
\* effects
TransitionEvents(handlerEvents, effectEvents) ==
  (IF lastOp = "flush" THEN <<>> ELSE handlerEvents) \o effectEvents

\* C11: every transition that starts a new track in the Playing state emits
\* exactly one play event, which carries the id of the new current track
\* and a context with the time of day, the device and the player mode
C11_OnePlayEventPerStart ==
  [][NewTrackStarts /\ lastOp' = "flush"
     => LET events == TransitionEvents(telemetry, telemetry')
        IN /\ Len(events) = 1
           /\ events[1].event_type = "play"
           /\ events[1].song_id = currentSong
           /\ events[1].hasContext
           /\ events[1].time_of_day \in TimeOfDayBuckets
           /\ events[1].device = "web"
           /\ events[1].player_mode = IF playlistMode THEN "playlist" ELSE "standard"]_vars

---------------------------------------------------------------------------
\* playSong and the audio element

\* The committed render differs from the one before in a dependency of the
\* audio-source effect: the effect is due
SourceEffectDue ==
  <<currentSong, isPlaying, isClient, playlistMode>>
    # <<deps.currentSong, deps.isPlaying, deps.isClient, deps.playlistMode>>

\* C12: playSong with a playable track pushes the current track, if any,
\* onto the front of history (trimmed to 20), plays the track from position
\* 0, and a load of the track is requested from the audio element on every
\* call, also when the track is the one that is already current
C12_PlaySongLoads ==
  [][/\ lastOp' = "playSong" /\ HasPreviewUrl(currentSong')
        => /\ history' = IF currentSong # 0
                          THEN PushHistory(currentSong, history) ELSE history
           /\ currentSong' \in Songs /\ isPlaying' /\ progress' = 0
           /\ SourceEffectDue'
     /\ lastOp = "playSong" /\ HasPreviewUrl(currentSong) /\ lastOp' = "flush"
        => "load" \in engineCalls' /\ audioSrc' = currentSong]_vars

---------------------------------------------------------------------------
\* The queue

\* C13: addToQueue appends the track at the tail of the queue, also when the
\* track is already in the queue or is the current track; the current
\* track, the history, isPlaying and progress are unchanged, no call is made
\* on the audio element and no effect is due afterwards
C13_AddToQueueAppends ==
  [][lastOp' = "addToQueue"
     => /\ Len(queue') = Len(queue) + 1
        /\ SubSeq(queue', 1, Len(queue)) = queue
        /\ queue'[Len(queue')] \in Songs
        /\ UNCHANGED <<currentSong, history, isPlaying, progress>>
        /\ engineCalls' = {}
        /\ Settled']_vars

\* The current track has been added to a queue that already holds it
C13_DuplicateAdded ==
  /\ lastOp = "addToQueue"
  /\ currentSong = 1 /\ queue = <<1, 1>>

---------------------------------------------------------------------------
\* The saved preferences

Preferences == <<volume, repeatMode, playlistMode>>

StoredPreferences == <<storage.volume, storage.repeatMode, storage.playlistMode>>

\* C14: a fresh session that loads the record an earlier session has saved
\* starts with exactly the saved volume, repeat mode and playlist mode
C14_SavedPreferencesRestored ==
  (lastOp = "mount" /\ storageWorks /\ storage.kind = "json")
    => Preferences = StoredPreferences

\* The stored record is missing, or unparsable, or does not fit the layout
MalformedRecord(st) ==
  \/ st.kind # "json"
  \/ st.volume \notin 0..100
  \/ st.repeatMode \notin RepeatModes
  \/ st.playlistMode \notin BOOLEAN

DefaultPreferences == <<defaultVolume, "off", FALSE>>

\* C15: a session that starts over a missing, unparsable or malformed
\* record starts with the default volume, repeat mode and playlist mode, and
\* no error is raised
C15_MalformedRecordGivesDefaults ==
  [][/\ ~mounted /\ mounted' /\ MalformedRecord(storage)
        => Preferences' = DefaultPreferences /\ ~crashed'
     /\ lastOp = "mount" /\ MalformedRecord(storage) /\ lastOp' = "flush"
        => Preferences' = DefaultPreferences /\ ~crashed']_vars

---------------------------------------------------------------------------
\* Seeking

\* C16: seekTo clamps its time to [0, duration], so that whenever the
\* duration is known progress lies between 0 and the duration
C16_ProgressWithinDuration ==
  (mounted /\ duration # 0) => (0 <= progress /\ progress <= duration)

---------------------------------------------------------------------------
\* Saving

PreferenceOps == {"setVolume", "setRepeatMode", "togglePlaylistMode"}

\* The stored record holds the preferences of the session
StoredIsLatest ==
  storage = StoredRecord(volume, repeatMode, playlistMode)

\* C17: while the storage works, every setVolume, setRepeatMode and
\* togglePlaylistMode call is followed by a state in which the stored record
\* equals the preferences in memory, and whenever no effect of a mounted
\* session is due the stored record equals them: no write of an older value
\* comes last
C17_StoredEventuallyLatest ==
  /\ [](storageWorks /\ mounted /\ DepsOf(World) = deps => StoredIsLatest)
  /\ (storageWorks /\ lastOp \in PreferenceOps) ~> StoredIsLatest

\* After three calls the preferences they have set are the stored ones
C17_ThreeChangesStored ==
  /\ lastOp = "flush" /\ ops = 3
  /\ volume = 30 /\ repeatMode = "one" /\ playlistMode
  /\ StoredIsLatest

---------------------------------------------------------------------------
\* The time of day of a play event

\* The buckets as the hours they cover
BucketOfHour(h) ==
  CASE 5 <= h /\ h <= 11 -> "morning"
    [] 12 <= h /\ h <= 16 -> "afternoon"
    [] 17 <= h /\ h <= 20 -> "evening"
    [] h >= 21 \/ h <= 4 -> "night"

\* C18: the time of day of a play event is morning for the hours 5 to 11,
\* afternoon for 12 to 16, evening for 17 to 20 and night for 21 to 4, for
\* every hour of the wall clock
C18_TimeOfDayBucket ==
  /\ \A h \in Hours : getTimeOfDay(h) = BucketOfHour(h)
  /\ \A i \in 1..Len(telemetry) :
       telemetry[i].hasContext
         => /\ hour \in Hours
            /\ telemetry[i].time_of_day \in TimeOfDayBuckets
            /\ telemetry[i].time_of_day = BucketOfHour(hour)

\* A play event is emitted in the first hour of the night
C18_NightBegins ==
  /\ hour = 21
  /\ Len(telemetry) = 1 /\ telemetry[1].hasContext
  /\ telemetry[1].time_of_day = "night"

---------------------------------------------------------------------------
\* Failures of the telemetry and of the storage

Playback == <<currentSong, queue, history, isPlaying, progress>>

PlaybackOf(w) == <<w.currentSong, w.queue, w.history, w.isPlaying, w.progress>>

\* The effects that are due, as they would run over a storage that works
EffectsOverWorkingStorage ==
  RunEffects(deps, [World EXCEPT !.storageWorks = TRUE])

\* C19: a failed delivery of a play event and a failing read or write of the
\* storage change nothing of the current track, the queue, the history,
\* isPlaying and progress and raise no error; no intent waits for a
\* delivery: the intents are handled while requests are in flight
C19_FailuresLeavePlayback ==
  [][/\ lastOp' = "telemetryFailed"
        => UNCHANGED Playback /\ crashed' = crashed
     /\ ~storageWorks /\ lastOp' = "mount"
        => UNCHANGED Playback /\ ~crashed'
     /\ ~storageWorks /\ lastOp' = "flush"
        => /\ Playback' = PlaybackOf(EffectsOverWorkingStorage)
           /\ crashed' = EffectsOverWorkingStorage.crashed
     /\ Ready /\ pending # {}
        => ENABLED TogglePlaylistModeOp]_vars

\* The delivery of the play event of the playing track has failed in a
\* session whose storage fails
C19_BothFail ==
  /\ lastOp = "telemetryFailed" /\ ~storageWorks
  /\ currentSong # 0 /\ isPlaying /\ ~crashed

---------------------------------------------------------------------------
\* The heads of the queue and of the history

\* The steps that move tracks between the queue, the current track and the
\* history; an effect calls nextSong for a track without source
MoveOps == {"nextSong", "previousSong", "playSong", "ended", "flush"}

HeadsDiffer(q, h) == q # <<>> /\ h # <<>> => Head(q) # Head(h)

\* The tracks of the session, the current one first
AllTracks ==
  (IF currentSong # 0 THEN <<currentSong>> ELSE <<>>) \o queue \o history

\* No track occurs twice among the current track, the queue and the history
NoTrackTwice ==
  \A i, j \in 1..Len(AllTracks) : AllTracks[i] = AllTracks[j] => i = j

\* C20 as stated: after a next, previous or playSong transition or the
\* repeat-all reconstruction the head of the queue and the head of the
\* history are not the same track, also when the queue and the history
\* hold duplicate tracks
C20_HeadsDifferAlways ==
  [][lastOp' \in MoveOps /\ Lists' # Lists => HeadsDiffer(queue', history')]_vars

\* C20: after a nextSong or previousSong transition, the repeat-all
\* reconstruction included, taken in a state where no track occurs twice
\* among the current track, the queue and the history, the head of the
\* queue and the head of the history are not the same track
C20_HeadsDifferWithoutDuplicates ==
  [][/\ lastOp' \in MoveOps \ {"playSong"}
     /\ Lists' # Lists
     /\ NoTrackTwice
     => HeadsDiffer(queue', history')]_vars

\* The repeat-all reconstruction after songs 1, 2 and 3 were played in
\* turn: song 1 is restarted, song 2 heads the queue, song 3 the history
C20_ReconstructionExample ==
  /\ lastOp = "nextSong" /\ repeatMode = "all"
  /\ currentSong = 1 /\ queue = <<2>> /\ history = <<3, 2, 1>>

---------------------------------------------------------------------------
\* The presence of the current track

\* C21: a present current track becomes absent by no intent and no event
\* other than an ended event in repeat mode off with an empty queue (a page
\* reload starts a session in which no track has been chosen yet): pause,
\* resume, a next or previous that does nothing, clearQueue, a rejected
\* play and a missing audio source leave it present
C21_CurrentStaysPresent ==
  [][currentSong # 0 /\ currentSong' = 0
     => \/ lastOp' = "reload"
        \/ lastOp' = "ended" /\ repeatMode = "off" /\ queue = <<>>]_vars

\* A play of the current track was rejected: playback has stopped and the
\* track is still the current one
C21_PresentAfterRejection ==
  /\ lastOp = "rejected"
  /\ currentSong # 0 /\ ~isPlaying

---------------------------------------------------------------------------
\* The ended event

\* C22: an ended event while the repeat mode is not one and the queue is
\* non-empty or the repeat mode is all does exactly what nextSong would do
\* in the state of that moment: with a non-empty queue the head of the
\* queue becomes the current track, the old current track is pushed onto
\* the history and isPlaying stays true
C22_EndedActsAsNext ==
  [][/\ lastOp' = "ended"
     /\ repeatMode # "one"
     /\ queue # <<>> \/ repeatMode = "all"
     => /\ Playback' = PlaybackOf(nextSong(World, World))
        /\ queue # <<>>
           => /\ currentSong' = Head(queue)
              /\ history' = PushHistory(currentSong, history)
              /\ isPlaying']_vars

---------------------------------------------------------------------------
\* Pause and resume

PauseResumeOps == {"pauseSong", "resumeSong"}

\* C23: pauseSong and resumeSong, with the effects they cause, change only
\* isPlaying and call only pause or play on the audio element: the current
\* track, the queue and the history are unchanged, the source is not
\* assigned or loaded again, the position of the element is kept and no
\* play event is emitted
C23_PauseResumeKeepPosition ==
  [][/\ lastOp' \in PauseResumeOps
        => /\ UNCHANGED <<currentSong, queue, history>>
           /\ engineCalls' = {} /\ telemetry' = <<>>
     /\ lastOp \in PauseResumeOps /\ lastOp' = "flush"
        => /\ UNCHANGED <<currentSong, queue, history>>
           /\ engineCalls' \subseteq {"play", "pause"}
           /\ audioSrc' = audioSrc /\ audioTime' = audioTime
           /\ telemetry' = <<>>]_vars

---------------------------------------------------------------------------
\* The repeat mode and the playlist mode

ModeOps == {"setRepeatMode", "togglePlaylistMode"}

\* C24: setRepeatMode and togglePlaylistMode, with the effects they cause,
\* change only the repeat mode or the playlist mode and write the stored
\* record: the current track, the queue, the history, isPlaying and progress
\* are unchanged, no call is made on the audio element and no play event is
\* emitted, also while a track is playing
C24_ModesArePreferencesOnly ==
  [][/\ lastOp' \in ModeOps
        => /\ UNCHANGED <<Playback, volume>>
           /\ engineCalls' = {} /\ telemetry' = <<>>
     /\ lastOp \in ModeOps /\ lastOp' = "flush"
        => /\ UNCHANGED <<Playback, Preferences>>
           /\ storage' = StoredRecord(volume, repeatMode, playlistMode)
           /\ engineCalls' = {} /\ telemetry' = <<>>
           /\ audioSrc' = audioSrc /\ audioTime' = audioTime]_vars

---------------------------------------------------------------------------
\* previousSong at the restart threshold

AudioElement == <<audioSrc, audioTime, audioPaused, audioVolume>>

\* C25: previousSong with progress above 3 seconds restarts the current
\* track in place (position of the element and progress 0) and leaves the
\* current track, the queue and the history unchanged; with progress of at
\* most 3 seconds and an empty history it changes nothing; with progress of
\* exactly 3 seconds and a history it goes back to the head of the history
C25_PreviousRestartsAboveThreshold ==
  [][lastOp' = "previousSong"
     => IF progress > 3
        THEN /\ UNCHANGED <<currentSong, queue, history, isPlaying>>
             /\ progress' = 0 /\ audioTime' = 0
             /\ engineCalls' = {"seek"}
        ELSE IF history = <<>>
        THEN /\ UNCHANGED <<StoreState, AudioElement>>
             /\ engineCalls' = {}
        ELSE /\ currentSong' = Head(history)
             /\ history' = Tail(history)
             /\ engineCalls' = {}]_vars

\* previousSong at 3 seconds of song 2 has gone back to song 1; the element
\* is still at 3 seconds of song 2
C25_BoundaryGoesBack ==
  /\ lastOp = "previousSong"
  /\ audioSrc = 2 /\ audioTime = 3
  /\ currentSong = 1 /\ queue = <<2>> /\ history = <<>> /\ progress = 0

---------------------------------------------------------------------------
\* One operation at a time

\* C26: every intent and every engine event acts on the state left by the
\* operation before it, never on an older snapshot of the queue, the
\* history, the current track or the repeat mode: a nextSong step and an
\* ended step give what their handler gives on the state of that moment
C26_ActsOnLatestState ==
  [][/\ lastOp' = "nextSong" => Playback' = PlaybackOf(nextSong(World, World))
     /\ lastOp' = "ended" => Playback' = PlaybackOf(handleSongEnd(World, World))]_vars

---------------------------------------------------------------------------
\* The repeat-all cycle

\* The session has set repeat mode all and called playSong(1, <<2>>), and
\* nothing else
CycleStarted ==
  /\ ops = 2 /\ Settled
  /\ repeatMode = "all" /\ isPlaying
  /\ currentSong = 1 /\ queue = <<2>> /\ history = <<>>

\* C27: in repeat mode all, after playSong(T1, [T2 .. Tn]) of distinct
\* playable tracks and with no intent afterwards, the ended events start
\* the tracks in the cycle T1, T2, ..., Tn, T1, ...: the first ended event
\* after playSong(1, <<2>>) starts song 2
C27_RepeatAllCycles ==
  [][CycleStarted /\ lastOp' = "ended"
     => currentSong' = 2 /\ isPlaying']_vars

---------------------------------------------------------------------------
\* Skipping the tracks without audio source

\* C28: the automatic skipping of tracks without audio source ends after
\* finitely many advances, in every repeat mode: with no intent in between,
\* the run of effects never comes back to a state it has started from (from
\* such a state it would repeat the same advances for ever)
C28_SkippingTerminates ==
  ~(mark # NoMark /\ lastOp = "flush" /\ mark = <<"run", RunState>>)

---------------------------------------------------------------------------
\* Playing without a track

\* C29: in every reachable state isPlaying = TRUE only with a current song;
\* in particular resumeSong() before any song was chosen does not leave
\* isPlaying = TRUE with no current song
C29_PlayingHasCurrent ==
  isPlaying => currentSong # 0

---------------------------------------------------------------------------
\* Back and forward

\* The lists before previousSong(), when nextSong() has just followed it
BackAndForth == mark # NoMark /\ mark[1] = "forth" /\ lastOp = "nextSong"

\* C30: when previousSong() takes the history branch (progress <= 3, history
\* not empty), previousSong() followed immediately by nextSong() leaves the
\* current song, the queue and the history as they were before the two calls
C30_BackThenForwardIsIdentity ==
  BackAndForth => <<currentSong, queue, history>> = mark[2]

\* C30, amended: the same, when the song gone back to (the head of the
\* history) has an audio source
C30_BackThenForwardOverSourcedHead ==
  BackAndForth /\ HasPreviewUrl(Head(mark[2][3]))
    => <<currentSong, queue, history>> = mark[2]

\* previousSong() and nextSong() have been called one after the other in a
\* state with a current song, a queue and a history that start with three
\* different songs, the head of the history with an audio source, and the
\* lists are as before
C30_BackAndForthExample ==
  /\ BackAndForth
  /\ queue # <<>> /\ history # <<>>
  /\ Cardinality({currentSong, Head(queue), Head(history)}) = 3
  /\ HasPreviewUrl(Head(history))
  /\ <<currentSong, queue, history>> = mark[2]

====
